---- MODULE Spec2Model ----
(***************************************************************************)
(* Model of stock_analysis.py: calculate_moving_average and                *)
(* analyze_indian_stock.                                                   *)
(*                                                                         *)
(* Numbers.  Prices and volumes are integers (a price in its smallest      *)
(* unit); every quotient the code forms is kept exactly, as a reduced      *)
(* fraction [num, den] with den > 0, so two values are equal exactly when  *)
(* the records are equal.  Floating-point rounding is not modelled.        *)
(* close_prices and volumes are numpy arrays (df[...].values): dividing a  *)
(* numpy float by zero yields inf or nan (with a warning), while dividing  *)
(* the Python int 0 that sum() returns for an empty slice raises           *)
(* ZeroDivisionError.                                                      *)
(***************************************************************************)
EXTENDS Integers, Sequences, FiniteSets, TLC

\* ---------------------------------------------------------------- bounds
MaxLen == 3
MaxPrice == 2
MaxVolume == 1
MaxWindow == 4

\* ------------------------------------------------------ program constants
MA50Window == 50
MA200Window == 200

\* ----------------------------------------------------------------- values
\* every value is a record tagged by kind
None == [kind |-> "None"]
Inf == [kind |-> "inf"]
NaN == [kind |-> "nan"]
List(items) == [kind |-> "list", items |-> items]
Raised(message) == [kind |-> "raise", message |-> message]

ZeroDivisionError == Raised("division by zero")
IndexError == Raised("index -1 is out of bounds for axis 0 with size 0")
NetworkError == Raised("history() failed")
NoDataError == Raised("No data available for either NSE or BSE")

\* ------------------------------------------------------------- arithmetic
Abs(x) == IF x < 0 THEN -x ELSE x

RECURSIVE GCD(_, _)
GCD(a, b) == IF b = 0 THEN a ELSE GCD(b, a % b)

\* the exact value n / d, d # 0
Rat(n, d) ==
    LET g == GCD(Abs(n), Abs(d))
        s == IF d < 0 THEN -1 ELSE 1
    IN  [kind |-> "num", num |-> (s * n) \div g, den |-> (s * d) \div g]

Num(x) == Rat(x, 1)

\* a > b for two finite values
Greater(a, b) == a.num * b.den > b.num * a.den
LessEq(a, b) == a.num * b.den <= b.num * a.den

\* Python's built-ins on a sequence.  The elements are combined pairwise,
\* which keeps the evaluation shallow on a long sequence; with exact
\* arithmetic the order of the additions and comparisons is immaterial.
RECURSIVE SumBetween(_, _, _)
SumBetween(data, lo, hi) ==
    IF lo > hi THEN 0
    ELSE IF lo = hi THEN data[lo]
    ELSE LET mid == (lo + hi) \div 2
         IN  SumBetween(data, lo, mid) + SumBetween(data, mid + 1, hi)

sum(data) == SumBetween(data, 1, Len(data))

RECURSIVE MinBetween(_, _, _)
MinBetween(data, lo, hi) ==
    IF lo = hi THEN data[lo]
    ELSE LET mid == (lo + hi) \div 2
             l == MinBetween(data, lo, mid)
             r == MinBetween(data, mid + 1, hi)
         IN  IF r < l THEN r ELSE l

min(data) == MinBetween(data, 1, Len(data))

RECURSIVE MaxBetween(_, _, _)
MaxBetween(data, lo, hi) ==
    IF lo = hi THEN data[lo]
    ELSE LET mid == (lo + hi) \div 2
             l == MaxBetween(data, lo, mid)
             r == MaxBetween(data, mid + 1, hi)
         IN  IF r > l THEN r ELSE l

\* mutant: the smallest element is taken for the largest
max_smallest(data) == MinBetween(data, 1, Len(data))

max(data) == MaxBetween(data, 1, Len(data))


\* data[a:b] for 0 <= a, 0 <= b (0-based, b exclusive, clipped to the length)
Slice(data, a, b) ==
    LET hi == IF b > Len(data) THEN Len(data) ELSE b
    IN  IF a >= hi THEN <<>> ELSE SubSeq(data, a + 1, hi)

\* total / d where total == sum(part): an empty part sums to the Python int 0,
\* a non-empty part of a numpy array to a numpy float
Divide(part, d) ==
    IF d # 0 THEN Rat(sum(part), d)
    ELSE IF part = <<>> THEN ZeroDivisionError
    ELSE IF sum(part) = 0 THEN NaN
    ELSE Inf

\* numpy float / numpy float
NpDivide(n, d) ==
    IF d # 0 THEN Rat(n, d)
    ELSE IF n = 0 THEN NaN
    ELSE Inf

\* ------------------------------------------------ calculate_moving_average
\* mutant: the trailing slice starts one point early
MAElement_earlyStart(data, window, i) ==
    IF i < window
        THEN Divide(Slice(data, 0, i + 1), i + 1)
        ELSE Divide(Slice(data, i - window, i + 1), window)

\* mutant: the warm-up sum is divided by the window, not by the points summed
MAElement_windowDivisor(data, window, i) ==
    IF i < window
        THEN Divide(Slice(data, 0, i + 1), window)
        ELSE Divide(Slice(data, i - window + 1, i + 1), window)

\* the value appended at 0-based index i
MAElement(data, window, i) ==
    IF i < window
        THEN Divide(Slice(data, 0, i + 1), i + 1)
        ELSE Divide(Slice(data, i - window + 1, i + 1), window)

\* mutant: the indices before the first full window are skipped
calculate_moving_average_skipWarmUp(data, window) ==
    LET skip == IF window >= 1 THEN window - 1 ELSE 0
        n == IF Len(data) >= skip THEN Len(data) - skip ELSE 0
        ma == [k \in 1..n |-> MAElement(data, window, k + skip - 1)]
    IN  IF \E k \in 1..n : ma[k].kind = "raise"
            THEN ZeroDivisionError
            ELSE List(ma)

\* mutant: the loop runs one index past the end of data
calculate_moving_average_extraIndex(data, window) ==
    LET ma == [k \in 1..(Len(data) + 1) |-> MAElement(data, window, k - 1)]
    IN  IF \E k \in 1..(Len(data) + 1) : ma[k].kind = "raise"
            THEN ZeroDivisionError
            ELSE List(ma)

\* the returned list, or the exception that leaves the loop
calculate_moving_average(data, window) ==
    LET ma == [k \in 1..Len(data) |-> MAElement(data, window, k - 1)]
    IN  IF \E k \in 1..Len(data) : ma[k].kind = "raise"
            THEN ZeroDivisionError
            ELSE List(ma)

\* ---------------------------------------------------------------- strings
\* a str is a sequence of one-character strings
NS == <<".", "N", "S">>
BO == <<".", "B", "O">>

endswith(s, suffix) ==
    /\ Len(s) >= Len(suffix)
    /\ SubSeq(s, Len(s) - Len(suffix) + 1, Len(s)) = suffix

StartsWith(s, prefix) ==
    /\ Len(s) >= Len(prefix)
    /\ SubSeq(s, 1, Len(prefix)) = prefix

\* s.replace(old, new): every non-overlapping occurrence, left to right
RECURSIVE replace(_, _, _)
replace(s, old, new) ==
    IF s = <<>> THEN <<>>
    ELSE IF StartsWith(s, old)
        THEN new \o replace(SubSeq(s, Len(old) + 1, Len(s)), old, new)
        ELSE <<Head(s)>> \o replace(Tail(s), old, new)

\* ----------------------------------------------------------------- inputs
Series(n) == [1..n -> 0..MaxPrice]
Volumes(n) == [1..n -> 0..MaxVolume]

Frame(close, volume) == [kind |-> "frame", Close |-> close, Volume |-> volume]

ShortFrames ==
    UNION {{Frame(c, v) : c \in Series(n), v \in Volumes(n)} :
            n \in 0..MaxLen}

\* histories around the two window lengths: k closes of a, then closes of b
LongLengths ==
    {MA50Window - 1, MA50Window, MA50Window + 1, MA200Window, MA200Window + 1}

LongFrames ==
    {Frame([i \in 1..n |-> IF i <= k THEN a ELSE b], [i \in 1..n |-> 1]) :
        n \in LongLengths, k \in {1, MA50Window}, a \in 1..2, b \in 1..2}

Frames == ShortFrames \cup LongFrames

Symbols == {<<"T">>, <<"T">> \o NS, <<"T">> \o BO}

Windows == (0 - MaxWindow)..MaxWindow
MASeries == UNION {Series(n) : n \in 0..MaxLen}

VARIABLES
    pc,         \* position in analyze_indian_stock
    symbol,     \* the local symbol
    df,         \* the local df (None before the first fetch)
    fetches,    \* the history() calls made: <<[symbol, rows]>>
    maCalls,    \* the calculate_moving_average calls made: <<[rows, window]>>
    exc,        \* the exception being handled, or None
    warnings,   \* st.warning messages shown
    errors,     \* st.error messages shown
    ret,        \* the returned pair, or None while running
    maData,     \* calculate_moving_average called on its own: data,
    maWindow,   \*   window
    maResult    \*   and its outcome (None before the call)

vars == <<pc, symbol, df, fetches, maCalls, exc, warnings, errors, ret,
          maData, maWindow, maResult>>

analysisVars == <<pc, symbol, df, fetches, maCalls, exc, warnings, errors, ret>>
maVars == <<maData, maWindow, maResult>>

\* ------------------------------------------------------ analyze_indian_stock
\* v * 100 for a numpy float v
Times100(v) == IF v.kind = "num" THEN Rat(v.num * 100, v.den) ELSE v

\* mutant: >= in place of >
Position_orEqual(current, maValue) ==
    IF ~Greater(maValue, Num(current)) THEN "Above" ELSE "Below"

\* 'Above' if current > maValue else 'Below'
Position(current, maValue) ==
    IF Greater(Num(current), maValue) THEN "Above" ELSE "Below"

\* x[-1]
Last(x) == x[Len(x)]

\* the dict built from the two arrays and the two moving averages
Analysis(sym, close_prices, volumes, ma50, ma200) ==
    [kind |-> "dict",
     stock_info |->
        [Symbol |-> sym,
         Exchange |-> IF endswith(sym, NS) THEN "NSE" ELSE "BSE",
         TradingDays |-> Len(close_prices)],
     price_metrics |->
        [CurrentPrice |-> Num(Last(close_prices)),
         High |-> Num(max(close_prices)),
         Low |-> Num(min(close_prices)),
         AveragePrice |-> NpDivide(sum(close_prices), Len(close_prices)),
         PriceRangePct |->
            Times100(NpDivide(max(close_prices) - min(close_prices),
                              min(close_prices)))],
     volume_metrics |->
        [AverageVolume |-> NpDivide(sum(volumes), Len(volumes)),
         MaxVolume |-> Num(max(volumes)),
         LastVolume |-> Num(Last(volumes))],
     technical_indicators |->
        [CurrentVs50MA |-> Position(Last(close_prices), Last(ma50)),
         CurrentVs200MA |-> Position(Last(close_prices), Last(ma200)),
         MA50Value |-> Last(ma50),
         MA200Value |-> Last(ma200)]]

InitAnalysis ==
    /\ pc = "start"
    /\ symbol \in Symbols
    /\ df = None
    /\ fetches = <<>>
    /\ maCalls = <<>>
    /\ exc = None
    /\ warnings = <<>>
    /\ errors = <<>>
    /\ ret = <<>>

\* lines 21-22: add the .NS suffix if the symbol has neither suffix
AddSuffix ==
    /\ pc = "start"
    /\ symbol' = IF ~(endswith(symbol, NS) \/ endswith(symbol, BO))
                    THEN symbol \o NS
                    ELSE symbol
    /\ pc' = "fetch"
    /\ UNCHANGED <<df, fetches, maCalls, exc, warnings, errors, ret, maVars>>

\* lines 29-32: the first history() call and the test of its length
FetchPrimary ==
    /\ pc = "fetch"
    /\ \/ \E frame \in Frames :
            /\ df' = frame
            /\ fetches' = Append(fetches, [symbol |-> symbol, rows |-> Len(frame.Close)])
            /\ pc' = IF Len(frame.Close) = 0 THEN "fallback" ELSE "build"
            /\ exc' = exc
       \/ /\ fetches' = Append(fetches, [symbol |-> symbol, rows |-> -1])
          /\ exc' = NetworkError
          /\ pc' = "except"
          /\ df' = df
    /\ UNCHANGED <<symbol, maCalls, warnings, errors, ret, maVars>>

\* mutant: the length of the second result is not tested
FetchFallback_untested ==
    /\ pc = "fallback"
    /\ warnings' = Append(warnings, symbol)
    /\ symbol' = replace(symbol, NS, BO)
    /\ \/ \E frame \in Frames :
            /\ df' = frame
            /\ fetches' = Append(fetches, [symbol |-> symbol', rows |-> Len(frame.Close)])
            /\ exc' = exc
            /\ pc' = "build"
       \/ /\ fetches' = Append(fetches, [symbol |-> symbol', rows |-> -1])
          /\ exc' = NetworkError
          /\ pc' = "except"
          /\ df' = df
    /\ UNCHANGED <<maCalls, errors, ret, maVars>>

\* lines 33-39: the warning, the .NS -> .BO replacement, the second history()
\* call and the test of its length
FetchFallback ==
    /\ pc = "fallback"
    /\ warnings' = Append(warnings, symbol)
    /\ symbol' = replace(symbol, NS, BO)
    /\ \/ \E frame \in Frames :
            /\ df' = frame
            /\ fetches' = Append(fetches, [symbol |-> symbol', rows |-> Len(frame.Close)])
            /\ IF Len(frame.Close) = 0
                 THEN exc' = NoDataError /\ pc' = "except"
                 ELSE exc' = exc /\ pc' = "build"
       \/ /\ fetches' = Append(fetches, [symbol |-> symbol', rows |-> -1])
          /\ exc' = NetworkError
          /\ pc' = "except"
          /\ df' = df
    /\ UNCHANGED <<maCalls, errors, ret, maVars>>

\* lines 42-76: the two moving averages, the dict and the return
BuildAnalysis ==
    /\ pc = "build"
    /\ LET close_prices == df.Close
           volumes == df.Volume
           ma50 == calculate_moving_average(close_prices, MA50Window)
           ma200 == calculate_moving_average(close_prices, MA200Window)
           call50 == [rows |-> Len(close_prices), window |-> MA50Window]
           call200 == [rows |-> Len(close_prices), window |-> MA200Window]
       IN  IF ma50.kind = "raise"
             THEN /\ maCalls' = Append(maCalls, call50)
                  /\ exc' = ma50
                  /\ pc' = "except"
                  /\ ret' = ret
           ELSE IF ma200.kind = "raise"
             THEN /\ maCalls' = maCalls \o <<call50, call200>>
                  /\ exc' = ma200
                  /\ pc' = "except"
                  /\ ret' = ret
           ELSE IF Len(close_prices) = 0
             THEN /\ maCalls' = maCalls \o <<call50, call200>>
                  /\ exc' = IndexError
                  /\ pc' = "except"
                  /\ ret' = ret
           ELSE /\ maCalls' = maCalls \o <<call50, call200>>
                /\ exc' = exc
                /\ pc' = "done"
                /\ ret' = <<Analysis(symbol, close_prices, volumes,
                                     ma50.items, ma200.items), df>>
    /\ UNCHANGED <<symbol, df, fetches, warnings, errors, maVars>>

\* lines 78-80: the error message and the (None, None) return
HandleException ==
    /\ pc = "except"
    /\ errors' = Append(errors, [symbol |-> symbol, message |-> exc.message])
    /\ ret' = <<None, None>>
    /\ pc' = "done"
    /\ UNCHANGED <<symbol, df, fetches, maCalls, exc, warnings, maVars>>

Init ==
    /\ InitAnalysis
    /\ maData = <<>>
    /\ maWindow = MA50Window
    /\ maResult = None

Next ==
    \/ AddSuffix
    \/ FetchPrimary
    \/ FetchFallback
    \/ BuildAnalysis
    \/ HandleException

Spec == Init /\ [][Next]_vars

\* ------------------------------------- calculate_moving_average on its own
InitMA ==
    /\ pc = "idle"
    /\ symbol = <<"T">>
    /\ df = None
    /\ fetches = <<>>
    /\ maCalls = <<>>
    /\ exc = None
    /\ warnings = <<>>
    /\ errors = <<>>
    /\ ret = <<>>
    /\ maData \in MASeries
    /\ maWindow \in Windows
    /\ maResult = None

CallMovingAverage ==
    /\ pc = "idle"
    /\ maResult = None
    /\ maResult' = calculate_moving_average(maData, maWindow)
    /\ UNCHANGED <<analysisVars, maData, maWindow>>

NextMA == CallMovingAverage

SpecMA == InitMA /\ [][NextMA]_vars

\* ------------------------------- either: a call of one or of the other
InitAll == Init \/ InitMA

NextAll == Next \/ NextMA

SpecAll == InitAll /\ [][NextAll]_vars

\* ------------------------------------------------------------- properties
\* the points of s at the 0-based indices first..last, added one by one
RECURSIVE PointsSum(_, _, _)
PointsSum(s, first, last) ==
    IF first > last THEN 0 ELSE s[first + 1] + PointsSum(s, first + 1, last)

\* the arithmetic mean of those points: their sum over their number
MeanOfPoints(s, first, last) == Rat(PointsSum(s, first, last), last - first + 1)

Elements(s) == {s[k] : k \in 1..Len(s)}
Largest(s) == CHOOSE x \in Elements(s) : \A y \in Elements(s) : y <= x
Smallest(s) == CHOOSE x \in Elements(s) : \A y \in Elements(s) : x <= y

Called == maResult # None
Returned == pc = "done" /\ ret # <<>>
ReturnedAnalysis == Returned /\ ret[1].kind = "dict"
ReturnedFailure == Returned /\ ret = <<None, None>>

\* C1: for a non-empty series and a window >= 1, the value at index i is the
\* mean of s[0..i] when i < w - 1 and the mean of the trailing w points
\* s[i-w+1..i] when i >= w - 1.
C1_MovingAverageValues ==
    (Called /\ maData # <<>> /\ maWindow >= 1) =>
        /\ maResult.kind = "list"
        /\ DOMAIN maResult.items = 1..Len(maData)
        /\ \A i \in 0..(Len(maData) - 1) :
              maResult.items[i + 1] =
                 IF i < maWindow - 1
                    THEN MeanOfPoints(maData, 0, i)
                    ELSE MeanOfPoints(maData, i - maWindow + 1, i)

\* a rising series longer than its window (>= 2): warm-up values, the boundary
\* index and a trailing value whose window no longer starts at index 0
C1_Witness ==
    /\ Called
    /\ maWindow >= 2
    /\ Len(maData) > maWindow
    /\ \A k \in 1..(Len(maData) - 1) : maData[k] < maData[k + 1]
    /\ maResult.kind = "list"

\* C2: for a non-empty series and a window >= 1, the result has exactly
\* len(s) elements and every one of them is a number.
C2_SameLengthAllDefined ==
    (Called /\ maData # <<>> /\ maWindow >= 1) =>
        /\ maResult.kind = "list"
        /\ Len(maResult.items) = Len(maData)
        /\ \A k \in 1..Len(maData) :
              /\ maResult.items[k].kind = "num"
              /\ maResult.items[k].den > 0

\* a series of the greatest length under a window longer than one point
C2_Witness ==
    /\ Called
    /\ Len(maData) = MaxLen
    /\ maWindow \in 2..MaxLen
    /\ maResult.kind = "list"
    /\ Len(maResult.items) = MaxLen

\* the label a three-way classification gives
ThreeWay(label, current, maValue) ==
    /\ current.num * maValue.den > maValue.num * current.den => label = "Above"
    /\ current.num * maValue.den < maValue.num * current.den => label = "Below"
    /\ current.num * maValue.den = maValue.num * current.den => label = "Equal"

\* the label the greater-than test gives
TwoWay(label, current, maValue) ==
    /\ label \in {"Above", "Below"}
    /\ label = "Above" <=> current.num * maValue.den > maValue.num * current.den

\* C3 as stated: Above if the last close is strictly greater than the last
\* moving-average value, Below if strictly less, Equal if the two are equal.
C3_AboveBelowEqual ==
    ReturnedAnalysis =>
        LET a == ret[1]
            current == Num(Last(ret[2].Close))
        IN  /\ ThreeWay(a.technical_indicators.CurrentVs50MA, current,
                        a.technical_indicators.MA50Value)
            /\ ThreeWay(a.technical_indicators.CurrentVs200MA, current,
                        a.technical_indicators.MA200Value)

\* C3 amended: Above if the last close is strictly greater than the last
\* moving-average value, Below otherwise, a last close equal to the
\* moving-average value included; Equal is never reported.
C3_AboveElseBelow ==
    ReturnedAnalysis =>
        LET a == ret[1]
            current == Num(Last(ret[2].Close))
        IN  /\ a.price_metrics.CurrentPrice = current
            /\ TwoWay(a.technical_indicators.CurrentVs50MA, current,
                      a.technical_indicators.MA50Value)
            /\ TwoWay(a.technical_indicators.CurrentVs200MA, current,
                      a.technical_indicators.MA200Value)

\* a last close equal to the 50-window value and not to the 200-window value
C3_Witness ==
    /\ ReturnedAnalysis
    /\ ret[1].technical_indicators.MA50Value = ret[1].price_metrics.CurrentPrice
    /\ ret[1].technical_indicators.CurrentVs50MA = "Below"
    /\ ret[1].technical_indicators.MA200Value # ret[1].price_metrics.CurrentPrice

\* C4 as stated, on the non-empty series (the empty series is C5's case): for
\* every window < 1 the call fails and returns no sequence of averages.
C4_InvalidWindowFails ==
    (Called /\ maData # <<>> /\ maWindow < 1) => maResult.kind = "raise"

\* C5 as stated: on an empty series the call fails for every window.
C5_EmptySeriesFails ==
    (Called /\ maData = <<>>) => maResult.kind = "raise"

\* C5 amended: on an empty series the call returns the empty list for every
\* window (positive, zero or negative) and raises nothing.
C5_EmptySeriesGivesEmptyList ==
    (Called /\ maData = <<>>) => maResult = List(<<>>)

\* the empty series under a window of zero, where a non-empty series raises
C5_Witness ==
    /\ Called
    /\ maData = <<>>
    /\ maWindow = 0
    /\ maResult.kind = "list"

\* C6 as stated: with closes fetched, no analysis is returned when the lowest
\* close is 0, and (high - low) / low * 100 is returned when it is not.
C6_DivisionByZeroIffLowZero ==
    (Returned /\ df.kind = "frame" /\ df.Close # <<>>) =>
        LET low == Smallest(df.Close)
            high == Largest(df.Close)
        IN  /\ low = 0 => ret[1] = None
            /\ low # 0 =>
                  /\ ret[1].kind = "dict"
                  /\ ret[1].price_metrics.PriceRangePct =
                        Rat((high - low) * 100, low)

FullyPopulated(a) ==
    /\ DOMAIN a = {"kind", "stock_info", "price_metrics", "volume_metrics",
                   "technical_indicators"}
    /\ DOMAIN a.stock_info = {"Symbol", "Exchange", "TradingDays"}
    /\ a.stock_info.Symbol # <<>>
    /\ a.stock_info.Exchange \in {"NSE", "BSE"}
    /\ a.stock_info.TradingDays > 0
    /\ DOMAIN a.price_metrics =
          {"CurrentPrice", "High", "Low", "AveragePrice", "PriceRangePct"}
    /\ \A k \in DOMAIN a.price_metrics : a.price_metrics[k] # None
    /\ DOMAIN a.volume_metrics = {"AverageVolume", "MaxVolume", "LastVolume"}
    /\ \A k \in DOMAIN a.volume_metrics : a.volume_metrics[k] # None
    /\ DOMAIN a.technical_indicators =
          {"CurrentVs50MA", "CurrentVs200MA", "MA50Value", "MA200Value"}
    /\ a.technical_indicators.CurrentVs50MA \in {"Above", "Below"}
    /\ a.technical_indicators.CurrentVs200MA \in {"Above", "Below"}
    /\ a.technical_indicators.MA50Value.kind = "num"
    /\ a.technical_indicators.MA200Value.kind = "num"

BothFetchesEmpty ==
    /\ Len(fetches) = 2
    /\ fetches[1].rows = 0
    /\ fetches[2].rows = 0

\* C8: a call ends either in (None, None) with an error message or in a fully
\* populated analysis together with the fetched series, never in anything in
\* between; when both fetches return no data it ends in the failure and no
\* moving average has been computed.
C8_FailureOrFullAnalysis ==
    /\ pc # "done" => ret = <<>>
    /\ pc = "done" =>
          /\ Len(ret) = 2
          /\ \/ /\ ret = <<None, None>>
                /\ Len(errors) = 1
             \/ /\ ret[1].kind = "dict"
                /\ FullyPopulated(ret[1])
                /\ ret[2] = df
                /\ df.kind = "frame"
                /\ Len(df.Close) = ret[1].stock_info.TradingDays
                /\ errors = <<>>
          /\ BothFetchesEmpty => (ret = <<None, None>> /\ maCalls = <<>>)

\* a call both of whose fetches returned no data, ended
C8_Witness ==
    /\ ReturnedFailure
    /\ BothFetchesEmpty
    /\ errors = <<[symbol |-> symbol, message |-> NoDataError.message]>>

\* C9 as stated: when the first fetch returns no data exactly one further
\* fetch is made, of a symbol different from the first; no second fetch is
\* made when the first returns data; never more than two fetches.
C9_FallbackTargetsOtherVenue ==
    /\ Len(fetches) <= 2
    /\ (Len(fetches) >= 1 /\ fetches[1].rows # 0) => Len(fetches) = 1
    /\ (Len(fetches) >= 1 /\ fetches[1].rows = 0 /\ pc = "done") =>
          /\ Len(fetches) = 2
          /\ fetches[2].symbol # fetches[1].symbol

\* C10: for a non-empty series no longer than the window the last
\* moving-average value is the mean of the whole series; so with at most 200
\* (at most 50) trading days the 200MA (50MA) value equals Average Price, and
\* Current vs 200MA is Above exactly when the last close exceeds the overall
\* average.
C10_ShortHistoryAverage ==
    /\ (Called /\ maData # <<>> /\ Len(maData) <= maWindow) =>
          /\ maResult.kind = "list"
          /\ Last(maResult.items) = MeanOfPoints(maData, 0, Len(maData) - 1)
    /\ ReturnedAnalysis =>
        LET a == ret[1]
            closes == ret[2].Close
            n == a.stock_info.TradingDays
            mean == Rat(sum(closes), Len(closes))
        IN  /\ n = Len(closes)
            /\ n <= MA200Window =>
                  /\ a.technical_indicators.MA200Value = mean
                  /\ a.technical_indicators.MA200Value = a.price_metrics.AveragePrice
                  /\ a.technical_indicators.CurrentVs200MA = "Above"
                        <=> Last(closes) * Len(closes) > sum(closes)
            /\ n <= MA50Window =>
                  /\ a.technical_indicators.MA50Value = mean
                  /\ a.technical_indicators.MA50Value = a.price_metrics.AveragePrice
                  /\ a.technical_indicators.CurrentVs50MA = "Above"
                        <=> Last(closes) * Len(closes) > sum(closes)

\* exactly 200 trading days, more than 50, the last close above the average
C10_Witness ==
    /\ ReturnedAnalysis
    /\ ret[1].stock_info.TradingDays = MA200Window
    /\ ret[1].technical_indicators.CurrentVs200MA = "Above"
    /\ ret[1].technical_indicators.MA50Value # ret[1].price_metrics.AveragePrice

====
